---- MODULE Spec2Model ----
(***************************************************************************)
(* Model of the RL feedback module of pipeshub-ai                          *)
(* (backend/python/app/services/rl): FeedbackAggregator, the               *)
(* FeedbackAggregation schema and RewardModel.                             *)
(*                                                                         *)
(* Python values are encoded as one-field records, so that values of       *)
(* different Python types are always comparable:                           *)
(*   None -> [none |-> TRUE]      a missing dict key -> [absent |-> TRUE]  *)
(*   int/float n -> [num |-> n]   str s -> [str |-> s]                     *)
(*   bool b -> [bool |-> b]       dict d -> [dict |-> d]                   *)
(*   list l -> [list |-> l]       datetime d -> [date |-> d]               *)
(*   ObjectId x -> [oid |-> x]    float n/d -> [num |-> n, den |-> d]      *)
(* A dict is a record over the keys the code reads, a missing key holding  *)
(* Absent.                                                                 *)
(***************************************************************************)
EXTENDS Integers, Sequences, FiniteSets, TLC

VARIABLES store, call, calls, lookup, classify, reward

vars == <<store, call, calls, lookup, classify, reward>>

----------------------------------------------------------------------------
(* Bounds of the model *)

\* largest rating value drawn for a rating dimension (ratings are 1..5 by
\* convention, not enforced; 0 is the out-of-range value below it)
MaxRating == 5
\* number of conversations in the store
MaxConvs == 2
\* creation dates and date filters range over 1..MaxDate
MaxDate == 2
\* min_feedback_count ranges over 1..MaxMinCount
MaxMinCount == 2
\* raw feedback values given to compute_reward range over -MaxValue..MaxValue
MaxValue == 5

----------------------------------------------------------------------------
(* Python values *)

None == [none |-> TRUE]
Absent == [absent |-> TRUE]
Num(n) == [num |-> n]
Str(s) == [str |-> s]
Bool(b) == [bool |-> b]
Dict(d) == [dict |-> d]
List(l) == [list |-> l]
Date(d) == [date |-> d]
ObjectId(x) == [oid |-> x]

IsNum(v) == DOMAIN v = {"num"}
IsStr(v) == DOMAIN v = {"str"}
IsBool(v) == DOMAIN v = {"bool"}
IsDict(v) == DOMAIN v = {"dict"}
IsList(v) == DOMAIN v = {"list"}

\* dict.get(key): None for a missing key
Get(d, key) == IF d[key] = Absent THEN None ELSE d[key]
\* dict.get(key, default)
GetOr(d, key, default) == IF d[key] = Absent THEN default ELSE d[key]
\* the keys a dict holds
Keys(d) == {k \in DOMAIN d : d[k] # Absent}

\* Python truth value of v (if v: ...)
Truthy(v) ==
    CASE IsNum(v) -> v.num # 0
      [] IsStr(v) -> v.str # ""
      [] IsBool(v) -> v.bool
      [] IsDict(v) -> Keys(v.dict) # {}
      [] IsList(v) -> v.list # <<>>
      [] v = None -> FALSE
      [] OTHER -> TRUE

RECURSIVE GCD(_, _)
GCD(a, b) == IF b = 0 THEN a ELSE GCD(b, a % b)

\* the float n / d (d > 0, n >= 0), as a fraction in lowest terms: two
\* divisions give the same float exactly when the fractions are equal
Float(n, d) == [num |-> n \div GCD(n, d), den |-> d \div GCD(n, d)]

RECURSIVE SumSeq(_)
SumSeq(s) == IF s = <<>> THEN 0 ELSE Head(s).num + SumSeq(Tail(s))

RECURSIVE SumSet(_, _)
SumSet(d, keys) ==
    IF keys = {} THEN 0
    ELSE LET k == CHOOSE x \in keys : TRUE
         IN d[k].num + SumSet(d, keys \ {k})

----------------------------------------------------------------------------
(* schema.py: FeedbackType *)

POSITIVE == [FeedbackType |-> "positive"]
NEGATIVE == [FeedbackType |-> "negative"]
NEUTRAL == [FeedbackType |-> "neutral"]

\* the outcome of a call that raised the exception e
Raise(e) == [raise |-> e]
Raised(r) == DOMAIN r = {"raise"}

EmptyDict == Dict([accuracy |-> Absent, relevance |-> Absent,
                   completeness |-> Absent, clarity |-> Absent])

----------------------------------------------------------------------------
(* feedback_aggregator.py: _classify_feedback *)

\* ClassifyByRatings with strict thresholds (> 4.0, < 2.0)
ClassifyByRatingsStrict(ratings) ==
    LET keys == Keys(ratings.dict) IN
    IF \E k \in keys : ~IsNum(ratings.dict[k])
    THEN Raise("TypeError")
    ELSE LET total == SumSet(ratings.dict, keys)
             n == Cardinality(keys)
         IN  IF total > 4 * n THEN POSITIVE
             ELSE IF total < 2 * n THEN NEGATIVE
             ELSE NEUTRAL

\* lines 222-231: the ratings branch, ratings being a truthy dict
ClassifyByRatings(ratings) ==
    LET keys == Keys(ratings.dict) IN
    IF \E k \in keys : ~IsNum(ratings.dict[k])
    THEN Raise("TypeError")            \* sum() over a non-number
    ELSE LET total == SumSet(ratings.dict, keys)
             n == Cardinality(keys)
         IN  \* avg_rating = total / n, compared with 4.0 and 2.0
             IF total >= 4 * n THEN POSITIVE
             ELSE IF total <= 2 * n THEN NEGATIVE
             ELSE NEUTRAL

\* _classify_feedback with the ratings looked at before the flag
ClassifyRatingsFirst(feedback) ==
    LET is_helpful == Get(feedback, "isHelpful")
        ratings == GetOr(feedback, "ratings", EmptyDict)
        by_ratings == IF Truthy(ratings) THEN ClassifyByRatings(ratings) ELSE NEUTRAL
    IN IF by_ratings # NEUTRAL THEN by_ratings
       ELSE IF is_helpful = Bool(TRUE) THEN POSITIVE
       ELSE IF is_helpful = Bool(FALSE) THEN NEGATIVE
       ELSE NEUTRAL

_classify_feedback(feedback) ==
    LET is_helpful == Get(feedback, "isHelpful")
        ratings == GetOr(feedback, "ratings", EmptyDict)
    IN IF is_helpful = Bool(TRUE) THEN POSITIVE
       ELSE IF is_helpful = Bool(FALSE) THEN NEGATIVE
       ELSE IF Truthy(ratings) THEN ClassifyByRatings(ratings)
       ELSE NEUTRAL

----------------------------------------------------------------------------
(* Stored documents (the "conversations" collection) *)

Ratings(a, r, c, l) ==
    Dict([accuracy |-> a, relevance |-> r, completeness |-> c, clarity |-> l])

\* a feedback entry; timestamp is the entry's own creation time
Feedback(h, r, c, ts) ==
    [isHelpful |-> h, ratings |-> r, citationFeedback |-> c, timestamp |-> ts]

Citation(score) == [relevanceScore |-> score]

Message(id, type, content, created, fb) ==
    [_id |-> id, messageType |-> Str(type), content |-> content,
     createdAt |-> Date(created), feedback |-> fb]

Conversation(id, org, user, created, deleted, msgs) ==
    [_id |-> Str(id), orgId |-> Str(org), userId |-> Str(user),
     createdAt |-> Date(created), isDeleted |-> Bool(deleted),
     messages |-> List(msgs)]

\* helpful, with accuracy 5 and relevance 5
fbHelpful == Feedback(Bool(TRUE), Ratings(Num(5), Num(5), Absent, Absent), Absent, Date(2))
\* no flag, ratings of mean 3
fbMid == Feedback(Absent, Ratings(Num(3), Num(3), Absent, Absent), Absent, Date(1))
\* not helpful, although the ratings are high
fbUnhelpful == Feedback(Bool(FALSE), Ratings(Absent, Absent, Num(5), Num(4)), Absent, Absent)
\* no flag, ratings of mean 2, and citation feedback
fbLow == Feedback(Absent, Ratings(Num(1), Absent, Absent, Num(3)),
                  List(<<Citation(Num(1)), Citation(Absent), Citation(Num(3))>>), Date(2))
\* an accuracy rating of 0 and a citation relevance of 0
fbZero == Feedback(Absent, Ratings(Num(0), Absent, Absent, Num(4)),
                   List(<<Citation(Num(0))>>), Date(1))
\* nothing but the entry's time
fbEmpty == Feedback(Absent, Absent, Absent, Date(1))
\* malformed: "ratings": null
fbNullRatings == Feedback(Bool(TRUE), None, Absent, Date(1))
\* malformed: "citationFeedback": null
fbNullCitations == Feedback(Absent, Absent, None, Date(2))
\* malformed: a rating that is a string
fbStringRating == Feedback(Bool(TRUE), Ratings(Str("5"), Absent, Absent, Absent), Absent, Date(2))

Conversations ==
    { Conversation("c1", "o1", "u1", 1, FALSE,
        << Message(ObjectId("m1"), "user_query", Str("q1"), 1, List(<<fbHelpful>>)),
           Message(ObjectId("m2"), "ai_response", Str("a1"), 1, List(<<fbHelpful>>)) >>),
      Conversation("c2", "o1", "u2", 2, FALSE,
        << Message(ObjectId("m3"), "ai_response", Str("a2"), 2, List(<<fbMid>>)),
           Message(ObjectId("m4"), "user_query", Str("q2"), 2, Absent),
           Message(ObjectId("m5"), "ai_response", Str("a3"), 2, List(<<fbUnhelpful, fbLow>>)) >>),
      Conversation("c3", "o2", "u1", 1, FALSE,
        << Message(ObjectId("m6"), "ai_response", Str("a4"), 1, List(<<>>)),
           Message(Absent, "ai_response", Absent, 2, List(<<fbEmpty, fbMid>>)) >>),
      Conversation("c4", "o2", "u2", 2, FALSE,
        << Message(ObjectId("m7"), "ai_response", Str("a5"), 1, List(<<fbZero>>)) >>),
      Conversation("c5", "o1", "u1", 2, TRUE,
        << Message(ObjectId("m8"), "ai_response", Str("a6"), 2, List(<<fbHelpful, fbLow>>)) >>),
      Conversation("c6", "o1", "u1", 1, FALSE,
        << Message(ObjectId("m9"), "ai_response", Str("a7"), 1, List(<<fbMid, fbNullRatings>>)) >>),
      Conversation("c7", "o2", "u1", 2, FALSE,
        << Message(ObjectId("m10"), "ai_response", Str("a8"), 2, List(<<fbNullCitations>>)) >>),
      Conversation("c8", "o1", "u2", 1, FALSE,
        << Message(ObjectId("m11"), "ai_response", Str("a9"), 1, List(<<fbStringRating>>)) >>) }

\* the collection: conversations in natural order, each _id once
Stores ==
    UNION { { s \in [1..n -> Conversations] :
                \A i, j \in 1..n : i # j => s[i]._id # s[j]._id } : n \in 0..MaxConvs }

----------------------------------------------------------------------------
(* feedback_aggregator.py: _build_query, and the store's find *)

Dates == {Date(d) : d \in 1..MaxDate}
OrgIds == {Str("o1")}
UserIds == {Str("u1")}

\* the arguments of aggregate_feedback
Params ==
    [start_date : Dates \cup {None}, end_date : Dates \cup {None},
     org_id : OrgIds \cup {None}, user_id : UserIds \cup {None},
     min_feedback_count : 1..MaxMinCount]

\* DateFilter with the upper bound set only when there is no lower bound
DateFilterElif(start_date, end_date) ==
    IF Truthy(start_date) \/ Truthy(end_date)
    THEN Dict([gte |-> IF Truthy(start_date) THEN start_date ELSE Absent,
               lte |-> IF ~Truthy(start_date) /\ Truthy(end_date)
                       THEN end_date ELSE Absent])
    ELSE Absent

\* lines 194-200: the createdAt filter
DateFilter(start_date, end_date) ==
    IF Truthy(start_date) \/ Truthy(end_date)
    THEN Dict([gte |-> IF Truthy(start_date) THEN start_date ELSE Absent,
               lte |-> IF Truthy(end_date) THEN end_date ELSE Absent])
    ELSE Absent

_build_query(start_date, end_date, org_id, user_id) ==
    [isDeleted |-> Bool(FALSE),
     orgId |-> IF Truthy(org_id) THEN org_id ELSE Absent,
     userId |-> IF Truthy(user_id) THEN user_id ELSE Absent,
     createdAt |-> DateFilter(start_date, end_date)]

\* whether a stored conversation satisfies a query document (equality on
\* the fields given, $gte and $lte on createdAt)
Matches(query, conv) ==
    /\ conv.isDeleted = query.isDeleted
    /\ query.orgId # Absent => conv.orgId = query.orgId
    /\ query.userId # Absent => conv.userId = query.userId
    /\ query.createdAt # Absent =>
          LET f == query.createdAt.dict IN
          /\ f.gte # Absent => conv.createdAt.date >= f.gte.date
          /\ f.lte # Absent => conv.createdAt.date <= f.lte.date

\* the cursor of find(query): the position in the collection of the next
\* matching conversation after position cursor, 0 when there is none
NextMatching(st, query, cursor) ==
    LET later == {i \in (cursor + 1)..Len(st) : Matches(query, st[i])}
    IN IF later = {} THEN 0 ELSE CHOOSE i \in later : \A j \in later : i <= j

----------------------------------------------------------------------------
(* schema.py: FeedbackAggregation *)

\* feedback_aggregator.py lines 233-236
_safe_avg(values) ==
    IF values = <<>> THEN None ELSE Float(SumSeq(values), Len(values))

\* start_date or datetime.min, end_date or datetime.utcnow()
DatetimeMin == [datetime |-> "min"]
UtcNow == [datetime |-> "utcnow"]

\* lines 126-142
FeedbackAggregation(stats, params) ==
    [total_conversations |-> stats.total_conversations,
     total_messages |-> stats.total_messages,
     total_feedback_entries |-> stats.total_feedback_entries,
     positive_feedback_count |-> stats.positive_feedback_count,
     negative_feedback_count |-> stats.negative_feedback_count,
     neutral_feedback_count |-> stats.neutral_feedback_count,
     avg_accuracy |-> _safe_avg(stats.accuracy_scores),
     avg_relevance |-> _safe_avg(stats.relevance_scores),
     avg_completeness |-> _safe_avg(stats.completeness_scores),
     avg_clarity |-> _safe_avg(stats.clarity_scores),
     avg_citation_relevance |-> _safe_avg(stats.citation_relevance_scores),
     start_date |-> IF Truthy(params.start_date) THEN params.start_date ELSE DatetimeMin,
     end_date |-> IF Truthy(params.end_date) THEN params.end_date ELSE UtcNow,
     org_id |-> params.org_id,
     user_id |-> params.user_id]

\* schema.py lines 42-47
positive_rate(agg) ==
    IF agg.total_feedback_entries = 0 THEN Float(0, 1)
    ELSE Float(agg.positive_feedback_count, agg.total_feedback_entries)

\* schema.py lines 49-54
negative_rate(agg) ==
    IF agg.total_feedback_entries = 0 THEN Float(0, 1)
    ELSE Float(agg.negative_feedback_count, agg.total_feedback_entries)

----------------------------------------------------------------------------
(* feedback_aggregator.py: aggregate_feedback *)

\* lines 65-77
InitialStats ==
    [total_conversations |-> 0, total_messages |-> 0,
     total_feedback_entries |-> 0, positive_feedback_count |-> 0,
     negative_feedback_count |-> 0, neutral_feedback_count |-> 0,
     accuracy_scores |-> <<>>, relevance_scores |-> <<>>,
     completeness_scores |-> <<>>, clarity_scores |-> <<>>,
     citation_relevance_scores |-> <<>>]

\* Tally without its else branch: a neutral entry is counted in no counter
TallyNoNeutral(stats, feedback_type) ==
    IF feedback_type = POSITIVE
    THEN [stats EXCEPT !.positive_feedback_count = @ + 1]
    ELSE IF feedback_type = NEGATIVE
    THEN [stats EXCEPT !.negative_feedback_count = @ + 1]
    ELSE stats

\* lines 101-106
Tally(stats, feedback_type) ==
    IF feedback_type = POSITIVE
    THEN [stats EXCEPT !.positive_feedback_count = @ + 1]
    ELSE IF feedback_type = NEGATIVE
    THEN [stats EXCEPT !.negative_feedback_count = @ + 1]
    ELSE [stats EXCEPT !.neutral_feedback_count = @ + 1]

\* lines 110-117: if ratings.get(dim): scores.append(ratings[dim])
Collect(scores, value) == IF Truthy(value) THEN Append(scores, value) ELSE scores

\* lines 109-117, ratings being a dict
CollectRatings(stats, ratings) ==
    [stats EXCEPT
       !.accuracy_scores = Collect(@, Get(ratings.dict, "accuracy")),
       !.relevance_scores = Collect(@, Get(ratings.dict, "relevance")),
       !.completeness_scores = Collect(@, Get(ratings.dict, "completeness")),
       !.clarity_scores = Collect(@, Get(ratings.dict, "clarity"))]

\* lines 121-123
RECURSIVE CollectCitations(_, _)
CollectCitations(scores, citation_feedback) ==
    IF citation_feedback = <<>> THEN scores
    ELSE CollectCitations(
           Collect(scores, Get(Head(citation_feedback), "relevanceScore")),
           Tail(citation_feedback))

\* lines 97-123: one pass of the loop over a message's feedback entries;
\* the statistics after it, or the exception it raises
ProcessFeedback(stats, feedback) ==
    LET counted == [stats EXCEPT !.total_feedback_entries = @ + 1]
        feedback_type == _classify_feedback(feedback)
        ratings == GetOr(feedback, "ratings", EmptyDict)
        citation_feedback == GetOr(feedback, "citationFeedback", List(<<>>))
    IN IF Raised(feedback_type) THEN feedback_type
       ELSE IF ~IsDict(ratings) THEN Raise("AttributeError")  \* None.get
       ELSE IF ~IsList(citation_feedback) THEN Raise("TypeError")  \* for cf in None
       ELSE [CollectRatings(Tally(counted, feedback_type), ratings) EXCEPT
               !.citation_relevance_scores = CollectCitations(@, citation_feedback.list)]

\* the state of one aggregate_feedback call
IdleCall ==
    [pc |-> "idle", params |-> None, query |-> None, stats |-> None,
     cursor |-> 0, finds |-> 0, messages |-> <<>>, feedback_list |-> <<>>,
     result |-> None, error |-> None]

\* lines 56-77: the call starts, builds the query and the counters and
\* opens the cursor
StartOf(params) ==
    [IdleCall EXCEPT
       !.pc = "fetch",
       !.params = params,
       !.query = _build_query(params.start_date, params.end_date,
                              params.org_id, params.user_id),
       !.stats = InitialStats,
       !.finds = 1]

\* lines 80-83: the cursor yields the next matching conversation
FetchConversationOf(cs, st) ==
    LET i == NextMatching(st, cs.query, cs.cursor) IN
    [cs EXCEPT
       !.pc = "message",
       !.cursor = i,
       !.stats.total_conversations = @ + 1,
       !.messages = GetOr(st[i], "messages", List(<<>>)).list]

\* Skipped without the min_feedback_count test
SkippedByTypeOnly(message, min_feedback_count) ==
    Get(message, "messageType") # Str("ai_response")

\* lines 84-91: whether the loop skips the message
Skipped(message, min_feedback_count) ==
    \/ Get(message, "messageType") # Str("ai_response")
    \/ Len(GetOr(message, "feedback", List(<<>>)).list) < min_feedback_count

\* lines 86-91: continue
SkipMessageOf(cs) == [cs EXCEPT !.messages = Tail(@)]

\* lines 89-93: the message is retained
RetainMessageOf(cs) ==
    [cs EXCEPT
       !.pc = "feedback",
       !.stats.total_messages = @ + 1,
       !.feedback_list = GetOr(Head(cs.messages), "feedback", List(<<>>)).list,
       !.messages = Tail(@)]

\* line 84: the conversation has no message left
EndMessagesOf(cs) == [cs EXCEPT !.pc = "fetch"]

\* an exception leaves aggregate_feedback: nothing is returned
\* and its local statistics are gone
FailOf(cs, e) ==
    [cs EXCEPT !.pc = "failed", !.error = Raise(e), !.result = None, !.stats = None]

\* lines 96-123: the next feedback entry of the message
ProcessFeedbackOf(cs) ==
    LET r == ProcessFeedback(cs.stats, Head(cs.feedback_list)) IN
    IF Raised(r) THEN FailOf(cs, r.raise)
    ELSE [cs EXCEPT !.stats = r, !.feedback_list = Tail(@)]

\* line 96: the message has no feedback entry left
EndFeedbackOf(cs) == [cs EXCEPT !.pc = "message"]

\* the score lists of the statistics
ScoreLists(stats) ==
    <<stats.accuracy_scores, stats.relevance_scores, stats.completeness_scores,
      stats.clarity_scores, stats.citation_relevance_scores>>

\* lines 125-142: the cursor is exhausted; sum() in _safe_avg raises on a
\* collected value that is no number
ReturnOf(cs) ==
    IF \E i \in 1..5 : \E j \in DOMAIN ScoreLists(cs.stats)[i] :
          ~IsNum(ScoreLists(cs.stats)[i][j])
    THEN FailOf(cs, "TypeError")
    ELSE [cs EXCEPT !.pc = "returned",
                    !.result = FeedbackAggregation(cs.stats, cs.params)]

\* StoreErrorOf with the error swallowed: the scan stops and what was
\* tallied so far is returned
StoreErrorSwallowed(cs) == ReturnOf(cs)

\* line 80: the store raises while the cursor is read; no handler in
\* aggregate_feedback catches it
StoreErrorOf(cs) == FailOf(cs, "StoreError")

\* one step of a call whose store raises nothing
StepOf(cs, st) ==
    CASE cs.pc = "fetch" ->
           IF NextMatching(st, cs.query, cs.cursor) # 0
           THEN FetchConversationOf(cs, st) ELSE ReturnOf(cs)
      [] cs.pc = "message" ->
           IF cs.messages = <<>> THEN EndMessagesOf(cs)
           ELSE IF Skipped(Head(cs.messages), cs.params.min_feedback_count)
           THEN SkipMessageOf(cs) ELSE RetainMessageOf(cs)
      [] cs.pc = "feedback" ->
           IF cs.feedback_list = <<>> THEN EndFeedbackOf(cs)
           ELSE ProcessFeedbackOf(cs)

RECURSIVE RunToEnd(_, _)
RunToEnd(cs, st) ==
    IF cs.pc \in {"returned", "failed"} THEN cs ELSE RunToEnd(StepOf(cs, st), st)

\* lines 35-142: a whole call against a collection that raises nothing
aggregate_feedback(st, params) == RunToEnd(StartOf(params), st)

----------------------------------------------------------------------------
(* feedback_aggregator.py: get_feedback_by_conversation *)

\* str(x)
PyStr(v) ==
    CASE v = None -> Str("None")
      [] DOMAIN v = {"oid"} -> Str(v.oid)
      [] OTHER -> v

\* FeedbackItem with created_at read from the feedback entry
FeedbackItemEntryTime(message, feedback) ==
    [message_id |-> PyStr(Get(message, "_id")),
     message_content |-> Get(message, "content"),
     feedback |-> feedback,
     created_at |-> Get(feedback, "timestamp")]

\* lines 170-175
FeedbackItem(message, feedback) ==
    [message_id |-> PyStr(Get(message, "_id")),
     message_content |-> Get(message, "content"),
     feedback |-> feedback,
     created_at |-> Get(message, "createdAt")]

\* lines 169-175
RECURSIVE AppendItems(_, _, _)
AppendItems(feedback_data, message, feedback_list) ==
    IF feedback_list = <<>> THEN feedback_data
    ELSE AppendItems(Append(feedback_data, FeedbackItem(message, Head(feedback_list))),
                     message, Tail(feedback_list))

\* lines 165-175
RECURSIVE CollectFeedback(_, _)
CollectFeedback(feedback_data, messages) ==
    IF messages = <<>> THEN feedback_data
    ELSE LET message == Head(messages) IN
         IF Get(message, "messageType") # Str("ai_response")
         THEN CollectFeedback(feedback_data, Tail(messages))
         ELSE CollectFeedback(
                AppendItems(feedback_data, message,
                            GetOr(message, "feedback", List(<<>>)).list),
                Tail(messages))

\* lines 157-159: the conversation with that _id, None when there is none
find_one(st, conversation_id) ==
    LET found == {i \in 1..Len(st) : st[i]._id = conversation_id}
    IN IF found = {} THEN None ELSE st[CHOOSE i \in found : TRUE]

\* lines 161-177
FeedbackData(conversation) ==
    IF conversation = None THEN List(<<>>)
    ELSE List(CollectFeedback(<<>>, GetOr(conversation, "messages", List(<<>>)).list))

\* the identifiers asked for: those of the fixture conversations and one
\* of no conversation
ConversationIds == {c._id : c \in Conversations} \cup {Str("c0")}

----------------------------------------------------------------------------
(* reward_model.py: RewardModel *)

\* weights and rewards are in tenths: 4 is 0.4
WeightValues == {Num(0), Num(3), Num(4), Num(10)}
FeedbackValues == {Num(v) : v \in {-MaxValue, -1, 0, 1, MaxValue}}

WeightsSet == [ratings : WeightValues \cup {Absent}, binary : WeightValues \cup {Absent},
               other : {Absent}]
RewardInputs == [ratings : FeedbackValues \cup {Absent}, binary : FeedbackValues \cup {Absent},
                 other : FeedbackValues \cup {Absent}]

\* lines 21-25: the sum over feedback.items() of weights.get(type, 0) * value
RECURSIVE WeightedSum(_, _, _)
WeightedSum(weights, feedback, keys) ==
    IF keys = {} THEN 0
    ELSE LET feedback_type == CHOOSE k \in keys : TRUE
             weight == GetOr(weights, feedback_type, Num(0))
         IN weight.num * feedback[feedback_type].num
            + WeightedSum(weights, feedback, keys \ {feedback_type})

compute_reward(weights, feedback) == WeightedSum(weights, feedback, Keys(feedback))

----------------------------------------------------------------------------
(* The aggregation call as a state machine over a fixed collection *)

IdleLookup == [pc |-> "idle"]
NoClassify == [pc |-> "idle"]
NoReward == [pc |-> "idle"]

Init ==
    /\ store \in Stores
    /\ call = IdleCall
    /\ calls = <<>>
    /\ lookup = IdleLookup
    /\ classify = NoClassify
    /\ reward = NoReward

Start ==
    /\ call.pc = "idle"
    /\ \E params \in Params : call' = StartOf(params)
    /\ UNCHANGED <<store, calls, lookup, classify, reward>>

FetchConversation ==
    /\ call.pc = "fetch"
    /\ NextMatching(store, call.query, call.cursor) # 0
    /\ call' = FetchConversationOf(call, store)
    /\ UNCHANGED <<store, calls, lookup, classify, reward>>

StoreError ==
    /\ call.pc = "fetch"
    /\ call' = StoreErrorOf(call)
    /\ UNCHANGED <<store, calls, lookup, classify, reward>>

Return ==
    /\ call.pc = "fetch"
    /\ NextMatching(store, call.query, call.cursor) = 0
    /\ call' = ReturnOf(call)
    /\ UNCHANGED <<store, calls, lookup, classify, reward>>

SkipMessage ==
    /\ call.pc = "message"
    /\ call.messages # <<>>
    /\ Skipped(Head(call.messages), call.params.min_feedback_count)
    /\ call' = SkipMessageOf(call)
    /\ UNCHANGED <<store, calls, lookup, classify, reward>>

RetainMessage ==
    /\ call.pc = "message"
    /\ call.messages # <<>>
    /\ ~Skipped(Head(call.messages), call.params.min_feedback_count)
    /\ call' = RetainMessageOf(call)
    /\ UNCHANGED <<store, calls, lookup, classify, reward>>

EndMessages ==
    /\ call.pc = "message"
    /\ call.messages = <<>>
    /\ call' = EndMessagesOf(call)
    /\ UNCHANGED <<store, calls, lookup, classify, reward>>

ProcessFeedbackEntry ==
    /\ call.pc = "feedback"
    /\ call.feedback_list # <<>>
    /\ call' = ProcessFeedbackOf(call)
    /\ UNCHANGED <<store, calls, lookup, classify, reward>>

EndFeedback ==
    /\ call.pc = "feedback"
    /\ call.feedback_list = <<>>
    /\ call' = EndFeedbackOf(call)
    /\ UNCHANGED <<store, calls, lookup, classify, reward>>

Next ==
    \/ Start
    \/ FetchConversation
    \/ StoreError
    \/ Return
    \/ SkipMessage
    \/ RetainMessage
    \/ EndMessages
    \/ ProcessFeedbackEntry
    \/ EndFeedback

Spec == Init /\ [][Next]_vars

----------------------------------------------------------------------------
(* get_feedback_by_conversation as a state machine *)

InitLookup == Init

LookupStart ==
    /\ lookup.pc = "idle"
    /\ \E id \in ConversationIds :
         lookup' = [pc |-> "find_one", conversation_id |-> id, result |-> None]
    /\ UNCHANGED <<store, call, calls, classify, reward>>

\* lines 157-177: find_one answers
LookupReturn ==
    /\ lookup.pc = "find_one"
    /\ lookup' = [lookup EXCEPT
                    !.pc = "returned",
                    !.result = FeedbackData(find_one(store, lookup.conversation_id))]
    /\ UNCHANGED <<store, call, calls, classify, reward>>

\* line 157: find_one raises
LookupStoreError ==
    /\ lookup.pc = "find_one"
    /\ lookup' = [lookup EXCEPT !.pc = "failed"]
    /\ UNCHANGED <<store, call, calls, classify, reward>>

NextLookup == LookupStart \/ LookupReturn \/ LookupStoreError

SpecLookup == InitLookup /\ [][NextLookup]_vars

----------------------------------------------------------------------------
(* _classify_feedback applied to one feedback record *)

RatingValues == {Num(n) : n \in 0..MaxRating} \cup {Absent, Str("5")}

ClassifyInputs ==
    { Feedback(h, r, Absent, Absent) :
        h \in {Absent, None, Bool(TRUE), Bool(FALSE)},
        r \in {Absent, None} \cup
              { Ratings(a, b, c, d) : a \in RatingValues, b \in RatingValues,
                                      c \in RatingValues, d \in RatingValues } }

InitClassify ==
    /\ store = <<>>
    /\ call = IdleCall
    /\ calls = <<>>
    /\ lookup = IdleLookup
    /\ \E fb \in ClassifyInputs : classify = [pc |-> "input", feedback |-> fb, label |-> None]
    /\ reward = NoReward

Classify ==
    /\ classify.pc = "input"
    /\ classify' = [classify EXCEPT !.pc = "done",
                                    !.label = _classify_feedback(classify.feedback)]
    /\ UNCHANGED <<store, call, calls, lookup, reward>>

NextClassify == Classify

SpecClassify == InitClassify /\ [][NextClassify]_vars

----------------------------------------------------------------------------
(* RewardModel.compute_reward applied to one feedback mapping *)

InitReward ==
    /\ store = <<>>
    /\ call = IdleCall
    /\ calls = <<>>
    /\ lookup = IdleLookup
    /\ classify = NoClassify
    /\ \E w \in WeightsSet, f \in RewardInputs :
         reward = [pc |-> "input", weights |-> w, feedback |-> f, reward_signal |-> None]

ComputeReward ==
    /\ reward.pc = "input"
    /\ reward' = [reward EXCEPT !.pc = "done",
                                !.reward_signal = Num(compute_reward(reward.weights, reward.feedback))]
    /\ UNCHANGED <<store, call, calls, lookup, classify>>

NextReward == ComputeReward

SpecReward == InitReward /\ [][NextReward]_vars

----------------------------------------------------------------------------
(* Concurrent aggregate_feedback calls on one FeedbackAggregator *)

\* the coroutines running aggregate_feedback on the event loop
CallIds == {1, 2}

\* the filters and time windows the concurrent calls are given
ConcParams ==
    { [start_date |-> None, end_date |-> None, org_id |-> None,
       user_id |-> None, min_feedback_count |-> 1],
      [start_date |-> None, end_date |-> None, org_id |-> Str("o1"),
       user_id |-> None, min_feedback_count |-> 1],
      [start_date |-> Date(MaxDate), end_date |-> None, org_id |-> None,
       user_id |-> None, min_feedback_count |-> 1],
      [start_date |-> None, end_date |-> Date(1), org_id |-> None,
       user_id |-> None, min_feedback_count |-> MaxMinCount] }

\* lines 81-123: a coroutine runs without suspension from the conversation
\* the cursor yielded to its next read of the cursor (or to its exception)
RECURSIVE RunToYield(_, _)
RunToYield(cs, st) ==
    IF cs.pc \in {"fetch", "returned", "failed"} THEN cs
    ELSE RunToYield(StepOf(cs, st), st)

\* ConcFetchOf with the statistics kept in one place for all calls (an
\* attribute of the aggregator instead of a local of the call): what call c
\* tallies is what every call being scanned holds
ConcFetchShared(all, c, st) ==
    LET new == RunToYield(FetchConversationOf(all[c], st), st) IN
    [k \in DOMAIN all |->
       IF k = c THEN new
       ELSE IF all[k].pc = "fetch" /\ new.pc = "fetch"
       THEN [all[k] EXCEPT !.stats = new.stats]
       ELSE all[k]]

\* lines 64-124: call c resumes with the next matching conversation and
\* tallies it into its own stats; no other call's state is touched
ConcFetchOf(all, c, st) ==
    [all EXCEPT ![c] = RunToYield(FetchConversationOf(all[c], st), st)]

InitConc ==
    /\ store \in Stores
    /\ call = IdleCall
    /\ calls = [c \in CallIds |-> IdleCall]
    /\ lookup = IdleLookup
    /\ classify = NoClassify
    /\ reward = NoReward

ConcStart(c) ==
    /\ calls[c].pc = "idle"
    /\ \E params \in ConcParams : calls' = [calls EXCEPT ![c] = StartOf(params)]
    /\ UNCHANGED <<store, call, lookup, classify, reward>>

ConcFetch(c) ==
    /\ calls[c].pc = "fetch"
    /\ NextMatching(store, calls[c].query, calls[c].cursor) # 0
    /\ calls' = ConcFetchOf(calls, c, store)
    /\ UNCHANGED <<store, call, lookup, classify, reward>>

ConcReturn(c) ==
    /\ calls[c].pc = "fetch"
    /\ NextMatching(store, calls[c].query, calls[c].cursor) = 0
    /\ calls' = [calls EXCEPT ![c] = ReturnOf(calls[c])]
    /\ UNCHANGED <<store, call, lookup, classify, reward>>

ConcStoreError(c) ==
    /\ calls[c].pc = "fetch"
    /\ calls' = [calls EXCEPT ![c] = StoreErrorOf(calls[c])]
    /\ UNCHANGED <<store, call, lookup, classify, reward>>

NextConc ==
    \E c \in CallIds :
      \/ ConcStart(c)
      \/ ConcFetch(c)
      \/ ConcReturn(c)
      \/ ConcStoreError(c)

SpecConc == InitConc /\ [][NextConc]_vars

----------------------------------------------------------------------------
(* What the claims speak of, stated without the operators of the code *)

RECURSIVE Flatten(_)
Flatten(seqs) ==
    IF Len(seqs) = 0 THEN <<>> ELSE Head(seqs) \o Flatten(Tail(seqs))

RemoveAt(seq, j) == SubSeq(seq, 1, j - 1) \o SubSeq(seq, j + 1, Len(seq))

\* the filter the arguments ask for: not soft-deleted, the organisation and
\* the user when given, the creation time within the inclusive range
ParamsMatch(params, conv) ==
    /\ conv.isDeleted = Bool(FALSE)
    /\ params.org_id # None => conv.orgId = params.org_id
    /\ params.user_id # None => conv.userId = params.user_id
    /\ params.start_date # None => conv.createdAt.date >= params.start_date.date
    /\ params.end_date # None => conv.createdAt.date <= params.end_date.date

IsAIResponse(message) == message.messageType = Str("ai_response")

EntriesOf(message) == IF message.feedback = Absent THEN <<>> ELSE message.feedback.list

\* a message the aggregation is to leave out
LeftOut(message, min_feedback_count) ==
    ~IsAIResponse(message) \/ Len(EntriesOf(message)) < min_feedback_count

\* the feedback entries of the retained messages of the matching
\* conversations, in scan order
RetainedEntries(st, params) ==
    Flatten([i \in 1..Len(st) |->
      IF ~ParamsMatch(params, st[i]) THEN <<>>
      ELSE LET msgs == st[i].messages.list IN
           Flatten([j \in 1..Len(msgs) |->
             IF LeftOut(msgs[j], params.min_feedback_count) THEN <<>>
             ELSE EntriesOf(msgs[j])])])

\* the values of one rating dimension that the entries carry
PresentRatings(entries, dim) ==
    Flatten([k \in 1..Len(entries) |->
      LET r == entries[k].ratings IN
      IF IsDict(r) /\ IsNum(r.dict[dim]) THEN <<r.dict[dim]>> ELSE <<>>])

\* the citation relevance scores that the entries carry
PresentCitations(entries) ==
    Flatten([k \in 1..Len(entries) |->
      LET c == entries[k].citationFeedback IN
      IF ~IsList(c) THEN <<>>
      ELSE Flatten([n \in 1..Len(c.list) |->
             IF IsNum(c.list[n].relevanceScore)
             THEN <<c.list[n].relevanceScore>> ELSE <<>>])])

\* the mean of a list of numbers, None for the empty list
MeanOrNone(values) ==
    IF Len(values) = 0 THEN None ELSE Float(SumSeq(values), Len(values))

SentimentSum(r) ==
    r.positive_feedback_count + r.negative_feedback_count + r.neutral_feedback_count

----------------------------------------------------------------------------
(* C1 *)

\* C1: positive + negative + neutral = total_feedback_entries holds of the
\* running statistics after every processed feedback entry, and of every
\* FeedbackAggregation that aggregate_feedback returns.
C1_SentimentCountsSumToTotal ==
    /\ call.pc \in {"fetch", "message", "feedback"} =>
          SentimentSum(call.stats) = call.stats.total_feedback_entries
    /\ call.pc = "returned" =>
          SentimentSum(call.result) = call.result.total_feedback_entries

\* a returned aggregation that counted entries of all three sentiments
C1_Witness ==
    /\ call.pc = "returned"
    /\ call.result.positive_feedback_count > 0
    /\ call.result.negative_feedback_count > 0
    /\ call.result.neutral_feedback_count > 0

----------------------------------------------------------------------------
(* C5 *)

\* C5: every returned average is the mean of all the values of its
\* dimension that the retained entries carry, whatever their value (0
\* included), and None exactly when no retained entry carries one.
C5_AveragesOverAllPresentValues ==
    call.pc = "returned" =>
      LET entries == RetainedEntries(store, call.params) IN
      /\ call.result.avg_accuracy = MeanOrNone(PresentRatings(entries, "accuracy"))
      /\ call.result.avg_relevance = MeanOrNone(PresentRatings(entries, "relevance"))
      /\ call.result.avg_completeness = MeanOrNone(PresentRatings(entries, "completeness"))
      /\ call.result.avg_clarity = MeanOrNone(PresentRatings(entries, "clarity"))
      /\ call.result.avg_citation_relevance = MeanOrNone(PresentCitations(entries))

----------------------------------------------------------------------------
(* C6 *)

\* C6: a malformed feedback record never makes the aggregation fail: the
\* only failure of aggregate_feedback is an error of the store.
C6_MalformedRecordNeverFails ==
    call.pc = "failed" => call.error = Raise("StoreError")

----------------------------------------------------------------------------
(* C7 *)

\* the collection without message j of conversation i
WithoutMessage(st, i, j) ==
    [st EXCEPT ![i].messages = List(RemoveAt(@.list, j))]

\* C7: a message that is no AI response, or an AI response with fewer
\* feedback entries than min_feedback_count, contributes nothing: the call
\* ends as it would against the collection without that message (the same
\* aggregation, count for count and average for average).
C7_LeftOutMessageContributesNothing ==
    (call.pc = "returned" \/ (call.pc = "failed" /\ call.error # Raise("StoreError"))) =>
      \A i \in 1..Len(store) : \A j \in 1..Len(store[i].messages.list) :
        LeftOut(store[i].messages.list[j], call.params.min_feedback_count) =>
          LET other == aggregate_feedback(WithoutMessage(store, i, j), call.params)
          IN other.pc = call.pc /\ other.result = call.result

\* an aggregation was returned over a conversation that holds a user
\* message with feedback and another over an AI response below the threshold
C7_Witness ==
    /\ call.pc = "returned"
    /\ call.result.total_feedback_entries > 0
    /\ \E i \in 1..Len(store) : \E j \in 1..Len(store[i].messages.list) :
         LET m == store[i].messages.list[j] IN
         /\ ParamsMatch(call.params, store[i])
         /\ IsAIResponse(m)
         /\ Len(EntriesOf(m)) = 1
         /\ call.params.min_feedback_count = 2

----------------------------------------------------------------------------
(* C8 *)

\* C8: a call that returns has scanned every matching conversation and
\* returns what the whole scan gives; a call the store failed ends with the
\* store's error and returns nothing; the query is issued once.
C8_StoreErrorFailsTheWholeCall ==
    /\ call.pc = "returned" =>
          /\ call.result.total_conversations =
                Cardinality({i \in 1..Len(store) : ParamsMatch(call.params, store[i])})
          /\ call.result.total_feedback_entries =
                Len(RetainedEntries(store, call.params))
    /\ call.error = Raise("StoreError") => call.pc = "failed" /\ call.result = None
    /\ call.pc = "failed" => call.result = None
    /\ call.finds <= 1

\* the store failed after a conversation with feedback had been tallied
C8_Witness ==
    /\ call.pc = "failed"
    /\ call.error = Raise("StoreError")
    /\ call.cursor > 0
    /\ Len(RetainedEntries(SubSeq(store, 1, call.cursor), call.params)) > 0
    /\ call.result = None

----------------------------------------------------------------------------
(* C10 *)

ZeroRate == Float(0, 1)

AllZero(r) ==
    /\ r.total_conversations = 0 /\ r.total_messages = 0
    /\ r.total_feedback_entries = 0 /\ r.positive_feedback_count = 0
    /\ r.negative_feedback_count = 0 /\ r.neutral_feedback_count = 0
    /\ r.avg_accuracy = None /\ r.avg_relevance = None
    /\ r.avg_completeness = None /\ r.avg_clarity = None
    /\ r.avg_citation_relevance = None
    /\ positive_rate(r) = ZeroRate /\ negative_rate(r) = ZeroRate

StartAfterEnd(params) ==
    /\ params.start_date # None
    /\ params.end_date # None
    /\ params.start_date.date > params.end_date.date

\* C10: when no stored conversation matches the filter, as when start_date
\* is after end_date, the returned aggregation has six counts of 0, five
\* averages of None and rates of 0.0; the rates are 0.0 whenever
\* total_feedback_entries is 0 and count / total otherwise.
C10_EmptyMatchGivesZeroAggregation ==
    call.pc = "returned" =>
      LET r == call.result IN
      /\ (\A i \in 1..Len(store) : ~ParamsMatch(call.params, store[i])) => AllZero(r)
      /\ StartAfterEnd(call.params) => AllZero(r)
      /\ r.total_feedback_entries = 0 =>
            positive_rate(r) = ZeroRate /\ negative_rate(r) = ZeroRate
      /\ r.total_feedback_entries > 0 =>
            /\ positive_rate(r).num * r.total_feedback_entries =
                 r.positive_feedback_count * positive_rate(r).den
            /\ negative_rate(r).num * r.total_feedback_entries =
                 r.negative_feedback_count * negative_rate(r).den

\* start_date after end_date over a collection that holds live
\* conversations with feedback
C10_Witness ==
    /\ call.pc = "returned"
    /\ StartAfterEnd(call.params)
    /\ call.params.org_id = None /\ call.params.user_id = None
    /\ \E i \in 1..Len(store) :
         /\ store[i].isDeleted = Bool(FALSE)
         /\ \E j \in 1..Len(store[i].messages.list) :
              LET m == store[i].messages.list[j] IN
              IsAIResponse(m) /\ Len(EntriesOf(m)) >= call.params.min_feedback_count
    /\ AllZero(call.result)

----------------------------------------------------------------------------
(* C2 *)

\* C2: the reward computed by compute_reward lies in [-1.0, 1.0] (-10..10
\* in tenths) for every weight configuration and every feedback mapping.
C2_RewardWithinUnitRange ==
    reward.pc = "done" =>
      reward.reward_signal.num >= -10 /\ reward.reward_signal.num <= 10

----------------------------------------------------------------------------
(* C3 *)

\* C3: when the helpfulness flag is present the flag alone decides: true
\* gives POSITIVE and false gives NEGATIVE, whatever the ratings.
C3_HelpfulFlagDecides ==
    classify.pc = "done" =>
      /\ classify.feedback.isHelpful = Bool(TRUE) => classify.label = POSITIVE
      /\ classify.feedback.isHelpful = Bool(FALSE) => classify.label = NEGATIVE

\* whether the record carries numeric ratings only, and at least one
NumericRatings(feedback) ==
    /\ IsDict(feedback.ratings)
    /\ Keys(feedback.ratings.dict) # {}
    /\ \A k \in Keys(feedback.ratings.dict) : IsNum(feedback.ratings.dict[k])

RatingsTotal(feedback) == SumSet(feedback.ratings.dict, Keys(feedback.ratings.dict))
RatingsCount(feedback) == Cardinality(Keys(feedback.ratings.dict))

\* a helpful record whose ratings alone would make it NEGATIVE
C3_Witness ==
    /\ classify.pc = "done"
    /\ classify.feedback.isHelpful = Bool(TRUE)
    /\ NumericRatings(classify.feedback)
    /\ RatingsTotal(classify.feedback) <= 2 * RatingsCount(classify.feedback)
    /\ classify.label = POSITIVE

----------------------------------------------------------------------------
(* C4 *)

\* C4: without a helpfulness flag, a record is POSITIVE when the mean of
\* its rating values is >= 4.0, NEGATIVE when it is <= 2.0, NEUTRAL when it
\* is strictly between, and NEUTRAL when it has no ratings or empty ones.
C4_RatingsMeanThresholds ==
    (classify.pc = "done" /\ classify.feedback.isHelpful = Absent) =>
      LET fb == classify.feedback IN
      /\ fb.ratings = Absent => classify.label = NEUTRAL
      /\ (IsDict(fb.ratings) /\ Keys(fb.ratings.dict) = {}) => classify.label = NEUTRAL
      /\ NumericRatings(fb) =>
            LET total == RatingsTotal(fb)
                n == RatingsCount(fb)
            IN /\ total >= 4 * n => classify.label = POSITIVE
               /\ total <= 2 * n => classify.label = NEGATIVE
               /\ (2 * n < total /\ total < 4 * n) => classify.label = NEUTRAL

\* no flag and several ratings whose mean is exactly 4.0
C4_Witness ==
    /\ classify.pc = "done"
    /\ classify.feedback.isHelpful = Absent
    /\ NumericRatings(classify.feedback)
    /\ RatingsCount(classify.feedback) >= 2
    /\ RatingsTotal(classify.feedback) = 4 * RatingsCount(classify.feedback)
    /\ classify.label = POSITIVE

----------------------------------------------------------------------------
(* C9 *)

MessageTime(message, entry) == message.createdAt
EntryTime(message, entry) == IF entry.timestamp = Absent THEN None ELSE entry.timestamp

\* one item per feedback entry of each AI response, in message order and
\* then entry order, TimeOf giving the creation time the item carries
ExpectedItems(conversation, TimeOf(_, _)) ==
    LET msgs == conversation.messages.list IN
    Flatten([j \in 1..Len(msgs) |->
      IF ~IsAIResponse(msgs[j]) THEN <<>>
      ELSE [k \in 1..Len(EntriesOf(msgs[j])) |->
             [message_id |-> IF msgs[j]._id = Absent THEN Str("None")
                             ELSE Str(msgs[j]._id.oid),
              message_content |-> IF msgs[j].content = Absent THEN None
                                  ELSE msgs[j].content,
              feedback |-> EntriesOf(msgs[j])[k],
              created_at |-> TimeOf(msgs[j], EntriesOf(msgs[j])[k])]]])

Stored(conversation_id) == {i \in 1..Len(store) : store[i]._id = conversation_id}

\* C9 as claimed: every item carries its feedback entry's creation time.
C9_ItemsCarryEntryCreationTime ==
    lookup.pc = "returned" =>
      \A i \in Stored(lookup.conversation_id) :
        lookup.result = List(ExpectedItems(store[i], EntryTime))

\* C9 as amended: get_feedback_by_conversation returns one item per
\* feedback entry of each AI-response message, in message order and then
\* entry order, each carrying the message id, the message content, the raw
\* feedback record and the creation time of the message; for an identifier
\* not in the store it returns the empty list.
C9_ItemsCarryMessageCreationTime ==
    lookup.pc = "returned" =>
      /\ \A i \in Stored(lookup.conversation_id) :
           lookup.result = List(ExpectedItems(store[i], MessageTime))
      /\ Stored(lookup.conversation_id) = {} => lookup.result = List(<<>>)

\* a conversation of several AI responses and a user message was looked
\* up, and an item's feedback entry was created after its message
C9_Witness ==
    /\ lookup.pc = "returned"
    /\ Len(lookup.result.list) >= 3
    /\ \E i \in Stored(lookup.conversation_id) :
         \E j \in 1..Len(store[i].messages.list) :
           ~IsAIResponse(store[i].messages.list[j])
    /\ \E k \in 1..Len(lookup.result.list) :
         LET item == lookup.result.list[k] IN
         /\ item.feedback.timestamp # Absent
         /\ item.feedback.timestamp # item.created_at

----------------------------------------------------------------------------
(* C11 *)

\* what a call yields: its aggregation, or the exception it ends with
Outcome(cs) == <<cs.pc, cs.result, cs.error>>

\* C11: however the calls interleave at their reads of the cursor, every
\* call that the store lets finish ends as it would when run alone against
\* the same store: from every state a call is in, finishing its scan gives
\* the outcome of a whole call with its arguments run alone, and a returned
\* call holds exactly that aggregation.
C11_InterleavedCallsAreIndependent ==
    \A c \in CallIds :
      (calls[c].pc \in {"fetch", "returned"}
         \/ (calls[c].pc = "failed" /\ calls[c].error # Raise("StoreError"))) =>
        Outcome(RunToEnd(calls[c], store)) =
          Outcome(aggregate_feedback(store, calls[c].params))

\* two calls with different filters are both suspended in their scans, each
\* having tallied feedback, one with a conversation still to come, and they
\* hold different statistics
C11_Witness ==
    /\ \A c \in CallIds :
         /\ calls[c].pc = "fetch"
         /\ calls[c].cursor > 0
         /\ calls[c].stats.total_feedback_entries > 0
    /\ \E c \in CallIds : NextMatching(store, calls[c].query, calls[c].cursor) # 0
    /\ calls[1].params # calls[2].params
    /\ calls[1].stats # calls[2].stats

====
